---- MODULE Spec2Model ----
(***************************************************************************)
(* Verification model of the Django/MariaDB extension layer:               *)
(*   - mariadb_backend/backend.py  (DatabaseOperations, DatabaseWrapper)   *)
(*   - mariadb_backend/fields.py   (VectorField, TemporalMixin)            *)
(*   - blog_demo/models.py         (Post, Comment and their helpers)       *)
(*                                                                         *)
(* Strings are sequences of one-character strings so that split, lower,    *)
(* substring search and int() are computed rather than assumed.  Byte      *)
(* strings are sequences of bytes in hex.  The record store (MariaDB) is   *)
(* modelled by the effect of the SQL statements the source issues.         *)
(***************************************************************************)
EXTENDS Integers, Sequences, FiniteSets, TLC

VARIABLES
    engine,     \* the server the connection talks to (fixed after Init)
    schema,     \* per table: its column list and its system-versioning flag
    rows,       \* per table: the set of physical rows
    nextId,     \* per table: the AUTO_INCREMENT counter
    now,        \* the server clock
    lastCall,   \* observation: the operation that completed last
    hist,       \* observation: the last get_history call and its result
    field,      \* codec: the VectorField declaration (its dimensions)
    blob,       \* codec: the stored column value (bytes or NULL)
    pyval,      \* codec: the attribute value last saved
    decoded,    \* codec: the value last read back, and by which method
    cands,      \* search: the vector attribute of each record, in objects.all() order
    found,      \* search: the last search_similar call and what it returned
    jmodel,     \* json: the model the record belongs to (fixed after Init)
    stored,     \* json: the text in the record's JSON column
    inst,       \* json: per caller, the JSON attribute of its model instance
    jop,        \* json: observation of the helper call that completed last
    posts,      \* query: the metadata documents of the Post records, by pk
    qres,       \* query: the last JSON query and what it returned
    instance,   \* embedding: a Post instance in memory and its last operation
    dbrow,      \* embedding: the row stored for that Post
    ops         \* version: a DatabaseOperations instance and its server

vars == <<engine, schema, rows, nextId, now, lastCall, hist,
          field, blob, pyval, decoded, cands, found, jmodel, stored, inst, jop,
          posts, qres, instance, dbrow, ops>>

temporalVars == <<engine, schema, rows, nextId, now, lastCall, hist>>
codecVars == <<field, blob, pyval, decoded>>
searchVars == <<cands, found>>
\* the variables the temporal actions leave alone
jsonVars == <<jmodel, stored, inst, jop>>
queryVars == <<posts, qres>>
embedVars == <<instance, dbrow>>
otherVars == <<codecVars, searchVars, jsonVars, queryVars, embedVars, ops>>
\* the variables the codec actions leave alone
nonCodecVars == <<temporalVars, searchVars, jsonVars, queryVars, embedVars, ops>>
\* the variables the search actions leave alone
nonSearchVars == <<temporalVars, codecVars, jsonVars, queryVars, embedVars, ops>>
\* the variables the JSON helper actions leave alone
nonJsonVars == <<temporalVars, codecVars, searchVars, queryVars, embedVars, ops>>
\* the variables the JSON query actions leave alone
nonQueryVars == <<temporalVars, codecVars, searchVars, jsonVars, embedVars, ops>>
\* the variables the embedding actions leave alone
nonEmbedVars == <<temporalVars, codecVars, searchVars, jsonVars, queryVars, ops>>
\* the variables the version actions leave alone
nonVersionVars == <<temporalVars, codecVars, searchVars, jsonVars, queryVars,
                    embedVars>>

None == "None"

(***************************************************************************)
(* Bounds                                                                  *)
(***************************************************************************)
MaxTime == 4      \* the instants 1..MaxTime at which a statement can run

Tables == {"blog_demo_post", "blog_demo_comment"}
Ids == {1, 2}              \* the primary keys AUTO_INCREMENT hands out

NoTime == 0                 \* a table without row_start/row_end columns
OpenEnd == MaxTime + 2      \* the store's open-interval sentinel, later than any date

(***************************************************************************)
(* Python string primitives over character sequences                       *)
(***************************************************************************)
Digits == <<"0", "1", "2", "3", "4", "5", "6", "7", "8", "9">>

\* str.lower() on one character
LowerChar(c) ==
    CASE c = "M" -> "m"
      [] c = "D" -> "d"
      [] c = "B" -> "b"
      [] c = "S" -> "s"
      [] c = "Q" -> "q"
      [] c = "L" -> "l"
      [] OTHER -> c

\* str.lower()
Lower(s) == [i \in 1..Len(s) |-> LowerChar(s[i])]

\* sub in s
Contains(s, sub) ==
    \E i \in 1..(Len(s) - Len(sub) + 1) : SubSeq(s, i, i + Len(sub) - 1) = sub

\* s.split(sep) for a one-character separator
RECURSIVE Split(_, _)
Split(s, sep) ==
    IF \A i \in 1..Len(s) : s[i] # sep
    THEN <<s>>
    ELSE LET k == CHOOSE i \in 1..Len(s) :
                      s[i] = sep /\ \A j \in 1..(i - 1) : s[j] # sep
         IN  <<SubSeq(s, 1, k - 1)>> \o Split(SubSeq(s, k + 1, Len(s)), sep)

DigitValue(c) == (CHOOSE i \in 1..10 : Digits[i] = c) - 1

\* int(s) raises ValueError unless s is a non-empty run of decimal digits
IntRaises(s) == Len(s) = 0 \/ \E i \in 1..Len(s) : \A d \in 1..10 : Digits[d] # s[i]

RECURSIVE IntOf(_)
IntOf(s) ==
    IF Len(s) = 0 THEN 0
    ELSE 10 * IntOf(SubSeq(s, 1, Len(s) - 1)) + DigitValue(s[Len(s)])

\* Python tuple comparison (a1, a2) < (b1, b2)
TupleLess(a, b) == a[1] < b[1] \/ (a[1] = b[1] /\ a[2] < b[2])

(***************************************************************************)
(* The engine: what it is, and what it answers to SELECT VERSION()         *)
(***************************************************************************)
SfxMariaDB == <<"-", "M", "a", "r", "i", "a", "D", "B">>
StrMariaDB == <<"M", "a", "r", "i", "a", "D", "B">>
StrMariadbLower == <<"m", "a", "r", "i", "a", "d", "b">>
StrUnknown == <<"u", "n", "k", "n", "o", "w", "n">>

Engines ==
    { [vendor |-> "MariaDB", major |-> 10, minor |-> 3, readable |-> TRUE,
       reply |-> <<"1", "0", ".", "3", ".", "0">> \o SfxMariaDB \o <<"-", "l", "o", "g">>],
      [vendor |-> "MariaDB", major |-> 10, minor |-> 2, readable |-> TRUE,
       reply |-> <<"1", "0", ".", "2", ".", "4", "4">> \o SfxMariaDB],
      [vendor |-> "MySQL", major |-> 8, minor |-> 0, readable |-> TRUE,
       reply |-> <<"8", ".", "0", ".", "3", "3">>],
      \* a server whose version text does not start with a number
      [vendor |-> "MariaDB", major |-> 0, minor |-> 0, readable |-> FALSE,
       reply |-> <<"x", ".", "6">> \o SfxMariaDB] }


(***************************************************************************)
(* Program constants                                                       *)
(***************************************************************************)
MinMajor == 10    \* enable_temporal: (major, minor) < (10, 3)
MinMinor == 3

\* What the engine itself supports: system versioning exists in MariaDB from
\* 10.3 on; any other server rejects the ALTER TABLE ... SYSTEM VERSIONING.
Capable(e) ==
    e.vendor = "MariaDB" /\ ~TupleLess(<<e.major, e.minor>>, <<MinMajor, MinMinor>>)

(***************************************************************************)
(* Table schema and the two ALTER TABLE statements of the source           *)
(***************************************************************************)
BaseCols == <<"id", "metadata">>

HasColumn(sch, c) == \E i \in 1..Len(sch.cols) : sch.cols[i] = c

\* ADD COLUMN c / ADD COLUMN IF NOT EXISTS c
AddColumn(cols, c, ifNotExists) ==
    IF ifNotExists /\ \E i \in 1..Len(cols) : cols[i] = c THEN cols ELSE Append(cols, c)

\* The error, if any, the engine answers to the ALTER TABLE (the statement is
\* atomic: on an error nothing of it is applied).
AlterOutcome(e, sch, ifNotExists) ==
    IF ~Capable(e) THEN "NotSupported"
    ELSE IF ~ifNotExists /\ (HasColumn(sch, "row_start") \/ HasColumn(sch, "row_end"))
         THEN "DuplicateColumn"
    ELSE IF ~ifNotExists /\ sch.versioned THEN "AlreadyVersioned"
    ELSE "ok"

\* a variant of AlterSchema in which a repeated ALTER switches versioning off
AlterSchemaToggles(sch, ifNotExists) ==
    [cols |-> AddColumn(AddColumn(sch.cols, "row_start", ifNotExists),
                        "row_end", ifNotExists),
     versioned |-> ~sch.versioned]

\* The schema a successful ALTER TABLE leaves
AlterSchema(sch, ifNotExists) ==
    [cols |-> AddColumn(AddColumn(sch.cols, "row_start", ifNotExists),
                        "row_end", ifNotExists),
     versioned |-> TRUE]

\* The rows a successful ALTER TABLE leaves: a row that had no validity
\* interval yet becomes the current version as of the statement's time.
AlterRows(rs, t) ==
    { IF r.row_start = NoTime THEN [r EXCEPT !.row_start = t, !.row_end = OpenEnd] ELSE r :
      r \in rs }

\* TemporalMixin.enable_temporal, ALTER TABLE without guards
EnableTemporalSql(e, sch) ==
    [outcome |-> AlterOutcome(e, sch, FALSE),
     schema |-> IF AlterOutcome(e, sch, FALSE) = "ok" THEN AlterSchema(sch, FALSE) ELSE sch]

\* DatabaseOperations.enable_temporal_table, ALTER TABLE with IF NOT EXISTS
\* guards on every clause
EnableTemporalTableSql(e, sch) ==
    [outcome |-> AlterOutcome(e, sch, TRUE),
     schema |-> IF AlterOutcome(e, sch, TRUE) = "ok" THEN AlterSchema(sch, TRUE) ELSE sch]

(***************************************************************************)
(* TemporalMixin.enable_temporal: the version check                        *)
(***************************************************************************)
\* server_version: the reply, or 'unknown' when the query raised
ServerVersion(e, queryFails) == IF queryFails THEN StrUnknown ELSE e.reply

\* (major, minor) as parsed by the try/except block
ParsedVersion(verStr) ==
    LET numeric == Split(verStr, "-")[1]
        parts == Split(numeric, ".")
        raises == IntRaises(parts[1]) \/ (Len(parts) > 1 /\ IntRaises(parts[2]))
    IN  IF raises THEN <<0, 0>>
        ELSE <<IntOf(parts[1]), IF Len(parts) > 1 THEN IntOf(parts[2]) ELSE 0>>

\* TRUE when enable_temporal raises RuntimeError instead of reaching the ALTER
CheckRaises(serverVersion) ==
    LET verStr == Lower(serverVersion)
    IN  IF Contains(verStr, StrMariadbLower)
        THEN TupleLess(ParsedVersion(verStr), <<MinMajor, MinMinor>>)
        ELSE TRUE

\* DatabaseWrapper.init_connection_state: the enhanced wrapper only ever
\* holds a connection to a server whose version text contains 'MariaDB'.
WrapperConnects(e) == Contains(e.reply, StrMariaDB)

(***************************************************************************)
(* The record store: INSERT, UPDATE, DELETE on a plain and on a            *)
(* system-versioned table.  A table is its set of physical rows; a row of  *)
(* a table without versioning columns carries NoTime in both of them.      *)
(* The attribute values of a row play no part in the temporal lifecycle    *)
(* and are not kept here.                                                  *)
(***************************************************************************)
\* the row of an identity that is current (not a closed history row)
IsCurrent(r) == r.row_end = OpenEnd \/ r.row_end = NoTime
Exists(rs, id) == \E r \in rs : r.id = id /\ IsCurrent(r)
CurrentRow(rs, id) == CHOOSE r \in rs : r.id = id /\ IsCurrent(r)

NewRow(versioned, id, t) ==
    [id |-> id,
     row_start |-> IF versioned THEN t ELSE NoTime,
     row_end |-> IF versioned THEN OpenEnd ELSE NoTime]

SqlInsert(rs, versioned, id, t) == rs \cup {NewRow(versioned, id, t)}

\* UPDATE ... WHERE id = %s.  A versioned table keeps the old version as a
\* history row ending now and opens a new version starting now.
SqlUpdate(rs, versioned, id, t) ==
    LET cur == CurrentRow(rs, id)
    IN  IF versioned
        THEN (rs \ {cur}) \cup {[cur EXCEPT !.row_end = t], NewRow(TRUE, id, t)}
        ELSE rs

\* DELETE ... WHERE id = %s.  A versioned table keeps the row as history,
\* its interval closed now.
SqlDelete(rs, versioned, id, t) ==
    LET cur == CurrentRow(rs, id)
    IN  IF versioned THEN (rs \ {cur}) \cup {[cur EXCEPT !.row_end = t]}
        ELSE rs \ {cur}

\* Model.save(): UPDATE the row of the instance's pk; when no row matched,
\* INSERT it
ModelSave(rs, versioned, id, t) ==
    IF Exists(rs, id) THEN SqlUpdate(rs, versioned, id, t)
    ELSE SqlInsert(rs, versioned, id, t)

\* Model.save(update_fields=[...]): UPDATE only; DatabaseError when no row
\* matched
ModelSaveFields(rs, versioned, id, t) ==
    IF Exists(rs, id) THEN SqlUpdate(rs, versioned, id, t) ELSE rs

(***************************************************************************)
(* TemporalMixin.get_history                                               *)
(***************************************************************************)
\* a variant of HistoryMatches whose WHERE clause lacks the id condition
HistoryMatchesAnyId(r, pk, start_date, end_date) ==
    /\ (start_date # NoTime => r.row_start >= start_date)
    /\ (end_date # NoTime => r.row_end <= end_date)

\* the WHERE clause: id = %s [AND row_start >= %s] [AND row_end <= %s];
\* "if start_date:" and "if end_date:" skip an absent (None) bound
HistoryMatches(r, pk, start_date, end_date) ==
    /\ r.id = pk
    /\ (start_date # NoTime => r.row_start >= start_date)
    /\ (end_date # NoTime => r.row_end <= end_date)

\* FOR SYSTEM_TIME ALL: current and history rows alike
HistoryRows(rs, pk, start_date, end_date) ==
    {r \in rs : HistoryMatches(r, pk, start_date, end_date)}

\* The statement has no ORDER BY: the rows come back in any order
Orderings(S) ==
    {q \in [1..Cardinality(S) -> S] : \A i, j \in 1..Cardinality(S) : i # j => q[i] # q[j]}

(***************************************************************************)
(* Initial state                                                           *)
(***************************************************************************)
NoSchema == [cols |-> <<>>, versioned |-> FALSE]
NoCall == [op |-> "none", table |-> None, pre |-> NoSchema, alter |-> FALSE,
           outcome |-> "none", queryFailed |-> FALSE]
NoHist == [table |-> None, pk |-> 0, start |-> NoTime, end |-> NoTime,
           outcome |-> "none", result |-> <<>>]

(***************************************************************************)
(* VectorField: the codec between numpy float64 arrays and BLOB bytes      *)
(***************************************************************************)
MaxDim == 2       \* declared dimensions run over 1..MaxDim
MaxLen == 2       \* vectors handed to the field have 0..MaxLen elements

BytesPerFloat == 8        \* VectorField.__init__: dimensions * 8
DefaultMaxLength == 8192  \* VectorField.__init__: max_length without dimensions

\* float64 values, named by their literals, and Python ints a list may hold;
\* a byte is named by its two hex digits
Floats == {"0.5", "-1.0"}
PyInts == {"1"}

\* float(x), the coercion np.array(..., dtype=np.float64) applies to an element
AsFloat64(x) ==
    CASE x = "0" -> "0.0"
      [] x = "1" -> "1.0"
      [] OTHER -> x

\* the eight bytes of a float64 in memory (IEEE 754, little-endian host)
Float64Bytes(f) ==
    CASE f = "0.0"  -> <<"00", "00", "00", "00", "00", "00", "00", "00">>
      [] f = "0.5"  -> <<"00", "00", "00", "00", "00", "00", "e0", "3f">>
      [] f = "1.0"  -> <<"00", "00", "00", "00", "00", "00", "f0", "3f">>
      [] f = "-1.0" -> <<"00", "00", "00", "00", "00", "00", "f0", "bf">>

\* the float64 that eight bytes of memory denote; a pattern outside the table
\* denotes some other float
Float64Of(b) ==
    CASE b = <<"00", "00", "00", "00", "00", "00", "00", "00">>     -> "0.0"
      [] b = <<"00", "00", "00", "00", "00", "00", "e0", "3f">>  -> "0.5"
      [] b = <<"00", "00", "00", "00", "00", "00", "f0", "3f">>  -> "1.0"
      [] b = <<"00", "00", "00", "00", "00", "00", "f0", "bf">> -> "-1.0"
      [] OTHER -> "other"

\* a variant of ToBytes that writes the last element first
RECURSIVE ToBytesReversed(_)
ToBytesReversed(elems) ==
    IF elems = <<>> THEN <<>>
    ELSE ToBytesReversed(Tail(elems)) \o Float64Bytes(Head(elems))

\* ndarray.tobytes(): the elements' bytes, in element order
RECURSIVE ToBytes(_)
ToBytes(elems) ==
    IF elems = <<>> THEN <<>>
    ELSE Float64Bytes(Head(elems)) \o ToBytes(Tail(elems))

\* np.frombuffer(b, dtype=np.float64) raises ValueError unless the buffer
\* size is a multiple of the element size
FromBufferRaises(b) == Len(b) % BytesPerFloat # 0

\* np.frombuffer(b, dtype=np.float64): one element per eight bytes
FromBuffer(b) ==
    [i \in 1..(Len(b) \div BytesPerFloat) |->
        Float64Of(SubSeq(b, (i - 1) * BytesPerFloat + 1, i * BytesPerFloat))]

\* np.array(value, dtype=np.float64) of a list or tuple
ArrayOf(elems) == [i \in 1..Len(elems) |-> AsFloat64(elems[i])]

\* Values in memory and in the column, tagged by their Python type
PyNone == [kind |-> "none", elems |-> <<>>]
NdArray(e) == [kind |-> "ndarray", elems |-> e]
PyList(e) == [kind |-> "list", elems |-> e]
PyTuple(e) == [kind |-> "tuple", elems |-> e]
PyBytes(b) == [kind |-> "bytes", elems |-> b]
Raised(exc) == [kind |-> exc, elems |-> <<>>]

\* VectorField.__init__
VectorField(dimensions) ==
    [dimensions |-> dimensions,
     max_length |-> IF dimensions # 0 THEN dimensions * BytesPerFloat
                    ELSE DefaultMaxLength]

\* VectorField.get_prep_value
GetPrepValue(value) ==
    IF value.kind = "none" THEN value
    ELSE IF value.kind = "ndarray" THEN PyBytes(ToBytes(value.elems))
    ELSE IF value.kind \in {"list", "tuple"} THEN PyBytes(ToBytes(ArrayOf(value.elems)))
    ELSE value

\* VectorField.from_db_value
FromDbValue(value) ==
    IF value.kind = "none" THEN value
    ELSE IF FromBufferRaises(value.elems) THEN Raised("ValueError")
    ELSE NdArray(FromBuffer(value.elems))

\* VectorField.to_python
ToPython(value) ==
    IF value.kind = "ndarray" THEN value
    ELSE IF value.kind = "none" THEN value
    ELSE IF value.kind = "bytes"
         THEN (IF FromBufferRaises(value.elems) THEN Raised("ValueError")
               ELSE NdArray(FromBuffer(value.elems)))
    ELSE IF value.kind \in {"list", "tuple"} THEN NdArray(ArrayOf(value.elems))
    ELSE value

\* the sequences over S of length 0..n
RECURSIVE SeqsUpTo(_, _)
SeqsUpTo(S, n) ==
    IF n = 0 THEN {<<>>}
    ELSE SeqsUpTo(S, n - 1) \cup
         {Append(q, x) : q \in {r \in SeqsUpTo(S, n - 1) : Len(r) = n - 1}, x \in S}

\* byte strings an attribute may be assigned directly
RawBytes ==
    {<<"01", "02", "03">>,
     <<"00", "00", "00", "00", "00", "00", "f0", "3f">>,
     <<"00", "00", "00", "00", "00", "00", "f0">>}

\* the values a caller assigns to the vector attribute
Assignable ==
    {PyNone}
    \cup {NdArray(e) : e \in SeqsUpTo(Floats, MaxLen)}
    \cup {PyList(e) : e \in SeqsUpTo(Floats \cup PyInts, MaxLen)}
    \cup {PyTuple(e) : e \in SeqsUpTo(PyInts, MaxLen)}
    \cup {PyBytes(b) : b \in RawBytes}

\* values of other Python types: a string, a number, a mapping
Foreign == {[kind |-> k, elems |-> <<>>] : k \in {"str", "float", "dict"}}

NotRead == [via |-> "none", value |-> PyNone]

\* the codec at rest, for the specifications that do not exercise it
CodecIdle ==
    /\ field = VectorField(MaxDim)
    /\ blob = PyNone
    /\ pyval = PyNone
    /\ decoded = NotRead

CodecInit ==
    /\ field \in {VectorField(d) : d \in 1..MaxDim}
    /\ blob = PyNone
    /\ pyval = PyNone
    /\ decoded = NotRead

\* the temporal part at rest, for the codec specification
TemporalIdle ==
    /\ engine = CHOOSE e \in Engines : Capable(e)
    /\ schema = [t \in Tables |-> [cols |-> BaseCols, versioned |-> FALSE]]
    /\ rows = [t \in Tables |-> {}]
    /\ nextId = [t \in Tables |-> 1]
    /\ now = 1
    /\ lastCall = NoCall
    /\ hist = NoHist

\* instance.<vector> = value; instance.save(): the column takes
\* get_prep_value(value)
SaveVector(value) ==
    /\ pyval' = value
    /\ blob' = GetPrepValue(value)
    /\ decoded' = NotRead
    /\ UNCHANGED field
    /\ UNCHANGED nonCodecVars

\* Model.objects.get(...): the attribute is from_db_value(column)
LoadVector ==
    /\ decoded' = [via |-> "from_db_value", value |-> FromDbValue(blob)]
    /\ UNCHANGED <<field, blob, pyval>>
    /\ UNCHANGED nonCodecVars

\* deserialization and form cleaning: to_python(value)
CleanVector(value) ==
    /\ decoded' = [via |-> "to_python", value |-> ToPython(value)]
    /\ UNCHANGED <<field, blob, pyval>>
    /\ UNCHANGED nonCodecVars

CodecNext ==
    \/ \E v \in Assignable : SaveVector(v)
    \/ LoadVector
    \/ \E v \in Assignable \cup Foreign : CleanVector(v)

(***************************************************************************)
(* VectorQueryMixin: cosine similarity and the linear-scan search          *)
(*                                                                         *)
(* A float64 vector is its integer components times a scale.  The scale    *)
(* "tiny" stands for 1e-200: the product of two tiny numbers is below the  *)
(* smallest float64 and evaluates to 0.0.  Rounding is not modelled.       *)
(* A score d / sqrt(n) is kept as the pair [dot |-> d, nsq |-> n].         *)
(***************************************************************************)
MaxCands == 3        \* the table holds 0..MaxCands records
MaxLimit == 2        \* limits run over -1..MaxLimit, and the default
DefaultLimit == 10   \* search_similar(cls, vector, limit=10, ...)

Vec(scale, comps) == [scale |-> scale, comps |-> comps]
NoVector == Vec("none", <<>>)          \* the attribute is None

\* the product of two floats of the given scales underflows to 0.0
Underflows(s1, s2) == s1 = "tiny" /\ s2 = "tiny"

RECURSIVE SumProd(_, _)
SumProd(a, b) == IF a = <<>> THEN 0 ELSE Head(a) * Head(b) + SumProd(Tail(a), Tail(b))

\* np.dot(vec1, vec2) raises ValueError when the shapes are not aligned
DotRaises(vec1, vec2) == Len(vec1.comps) # Len(vec2.comps)

\* np.dot(vec1, vec2), as [scale, value]
Dot(vec1, vec2) ==
    IF Underflows(vec1.scale, vec2.scale) THEN [scale |-> "one", value |-> 0]
    ELSE [scale |-> IF "tiny" \in {vec1.scale, vec2.scale} THEN "tiny" ELSE "one",
          value |-> SumProd(vec1.comps, vec2.comps)]

\* np.linalg.norm(vec) squared: sqrt(vec.dot(vec))
NormSq(vec) == Dot(vec, vec).value

Score(d, n) == [dot |-> d, nsq |-> n]
Zero == Score(0, 1)
One == Score(1, 1)

\* VectorQueryMixin._cosine_similarity, for vectors of one length
CosineSimilarity(vec1, vec2) ==
    IF NormSq(vec1) # 0 /\ NormSq(vec2) # 0
    THEN Score(Dot(vec1, vec2).value, NormSq(vec1) * NormSq(vec2))
    ELSE Zero

\* the sign-carrying square of a score's numerator
SignedSq(d) == IF d < 0 THEN -(d * d) ELSE d * d

\* a >= b on scores
ScoreGeq(a, b) == SignedSq(a.dot) * b.nsq >= SignedSq(b.dot) * a.nsq
ScoreEq(a, b) == ScoreGeq(a, b) /\ ScoreGeq(b, a)

\* a variant of InsertDesc that puts an element in front of its ties
RECURSIVE InsertDescUnstable(_, _)
InsertDescUnstable(sorted, x) ==
    IF sorted = <<>> THEN <<x>>
    ELSE IF ScoreGeq(Head(sorted).score, x.score) /\ ~ScoreGeq(x.score, Head(sorted).score)
         THEN <<Head(sorted)>> \o InsertDescUnstable(Tail(sorted), x)
         ELSE <<x>> \o sorted

\* list.sort(key=similarity_score, reverse=True) is stable: an element goes
\* behind every earlier element whose score is not smaller
RECURSIVE InsertDesc(_, _)
InsertDesc(sorted, x) ==
    IF sorted = <<>> THEN <<x>>
    ELSE IF ScoreGeq(Head(sorted).score, x.score)
         THEN <<Head(sorted)>> \o InsertDesc(Tail(sorted), x)
         ELSE <<x>> \o sorted

RECURSIVE SortDesc(_)
SortDesc(results) ==
    IF results = <<>> THEN <<>>
    ELSE InsertDesc(SortDesc(SubSeq(results, 1, Len(results) - 1)),
                    results[Len(results)])

\* a variant of SliceTo that keeps every result
SliceAll(results, limit) == results

\* results[:limit]
SliceTo(results, limit) ==
    IF limit >= 0
    THEN SubSeq(results, 1, IF limit < Len(results) THEN limit ELSE Len(results))
    ELSE SubSeq(results, 1, Len(results) + limit)

\* a variant of Scan that scores a record without a vector as 0.0
RECURSIVE ScanNoneAsZero(_, _, _, _)
ScanNoneAsZero(vector, records, n, threshold) ==
    IF n = 0 THEN <<>>
    ELSE LET rest == ScanNoneAsZero(vector, records, n - 1, threshold)
             score == IF records[n] = NoVector THEN Zero
                      ELSE CosineSimilarity(vector, records[n])
         IN  IF ScoreGeq(score, threshold)
             THEN Append(rest, [id |-> n, score |-> score])
             ELSE rest

\* the loop of search_similar over records 1..n: the records appended to
\* results, in iteration order
RECURSIVE Scan(_, _, _, _)
Scan(vector, records, n, threshold) ==
    IF n = 0 THEN <<>>
    ELSE LET rest == Scan(vector, records, n - 1, threshold)
             record_vector == records[n]
         IN  IF record_vector # NoVector
                /\ ScoreGeq(CosineSimilarity(vector, record_vector), threshold)
             THEN Append(rest, [id |-> n,
                                score |-> CosineSimilarity(vector, record_vector)])
             ELSE rest

\* the loop raises when it reaches a record whose vector has another length
ScanRaises(vector, records) ==
    \E n \in 1..Len(records) :
        records[n] # NoVector /\ DotRaises(vector, records[n])

\* VectorQueryMixin.search_similar
SearchSimilarResult(vector, records, limit, threshold) ==
    SliceTo(SortDesc(Scan(vector, records, Len(records), threshold)), limit)

\* the vectors of the stored records and of the queries
StoredVectors ==
    {Vec("one", <<1, 0>>), Vec("one", <<0, 1>>), Vec("one", <<1, 1>>),
     Vec("tiny", <<1, 0>>), Vec("one", <<1>>), NoVector}
QueryVectors ==
    {Vec("one", <<1, 0>>), Vec("one", <<1, 1>>), Vec("one", <<0, 0>>),
     Vec("tiny", <<1, 0>>)}
Limits == (-1..MaxLimit) \cup {DefaultLimit}
Thresholds == {Score(9, 10 * 10), Zero, Score(-1, 1)}     \* 0.9, 0.0, -1.0

NoSearch == [vector |-> NoVector, limit |-> 0, threshold |-> Zero,
             outcome |-> "none", results |-> <<>>]

SearchIdle ==
    /\ cands = <<>>
    /\ found = NoSearch

\* Model.objects.create(..., <vector> = v)
AddRecord(v) ==
    /\ Len(cands) < MaxCands
    /\ cands' = Append(cands, v)
    /\ found' = NoSearch
    /\ UNCHANGED nonSearchVars

\* a variant of SearchSimilar that swallows the exception of the loop
SearchSimilarSwallows(vector, limit, threshold) ==
    /\ found = NoSearch
    /\ found' = [vector |-> vector, limit |-> limit, threshold |-> threshold,
                 outcome |-> "ok",
                 results |-> IF ScanRaises(vector, cands) THEN <<>>
                             ELSE SearchSimilarResult(vector, cands, limit, threshold)]
    /\ UNCHANGED cands
    /\ UNCHANGED nonSearchVars

\* Model.search_similar(vector, limit, threshold).  The call reads only, so
\* it is taken from a state that holds no earlier result.
SearchSimilar(vector, limit, threshold) ==
    /\ found = NoSearch
    /\ found' = [vector |-> vector, limit |-> limit, threshold |-> threshold,
                 outcome |-> IF ScanRaises(vector, cands) THEN "ValueError" ELSE "ok",
                 results |-> IF ScanRaises(vector, cands) THEN <<>>
                             ELSE SearchSimilarResult(vector, cands, limit, threshold)]
    /\ UNCHANGED cands
    /\ UNCHANGED nonSearchVars

SearchNext ==
    \/ \E v \in StoredVectors : AddRecord(v)
    \/ \E v \in QueryVectors, l \in Limits, t \in Thresholds : SearchSimilar(v, l, t)

(***************************************************************************)
(* JSON documents: Python values, json.dumps and json.loads                *)
(*                                                                         *)
(* A value is a record [k, v] of its kind and content.  A text is a        *)
(* sequence of tokens.  A dict keeps its keys in KeyOrder; the order in    *)
(* which keys were inserted is not modelled.                               *)
(***************************************************************************)
JNull == [k |-> "null", v |-> ""]
JStr(s) == [k |-> "str", v |-> s]
JNum(n) == [k |-> "num", v |-> n]
JBool(b) == [k |-> "bool", v |-> b]
JList(q) == [k |-> "list", v |-> q]
JObj(f) == [k |-> "obj", v |-> f]
\* a str attribute holding JSON text
JText(toks) == [k |-> "text", v |-> toks]

EmptyDict == JObj(<<>>)

\* d[key] = value
SetKey(d, key, value) ==
    JObj([x \in DOMAIN d.v \cup {key} |-> IF x = key THEN value ELSE d.v[x]])
\* key in d
HasKey(d, key) == key \in DOMAIN d.v

KeyOrder == <<"tags", "category", "seo", "title", "seo.title", "contains", "0",
              "flagged", "flag_reason", "flagged_at", "views", "likes">>

\* tokens: punctuation, string literals, numbers, the literals true/false/null
P(c) == [k |-> "punct", v |-> c]
EndOfText == [k |-> "end", v |-> ""]
Tok(toks, i) == IF i >= 1 /\ i <= Len(toks) THEN toks[i] ELSE EndOfText

\* a variant of Dumps that leaves out the last token
DumpsCut(j) == IF j.k \in {"list", "obj"} THEN <<P(IF j.k = "list" THEN "[" ELSE "{")>>
               ELSE <<j>>

\* json.dumps(value)
RECURSIVE Dumps(_)
RECURSIVE DumpElems(_)
RECURSIVE DumpMembers(_, _)
DumpElems(q) ==
    IF q = <<>> THEN <<>>
    ELSE IF Len(q) = 1 THEN Dumps(q[1])
    ELSE Dumps(q[1]) \o <<P(",")>> \o DumpElems(Tail(q))
DumpMembers(f, keys) ==
    IF keys = <<>> THEN <<>>
    ELSE <<JStr(Head(keys)), P(":")>> \o Dumps(f[Head(keys)])
         \o (IF Len(keys) = 1 THEN <<>> ELSE <<P(",")>> \o DumpMembers(f, Tail(keys)))
Dumps(j) ==
    CASE j.k = "list" -> <<P("[")>> \o DumpElems(j.v) \o <<P("]")>>
      [] j.k = "obj" ->
            <<P("{")>>
            \o DumpMembers(j.v, SelectSeq(KeyOrder, LAMBDA x : x \in DOMAIN j.v))
            \o <<P("}")>>
      [] OTHER -> <<j>>

\* json.loads(text): [ok, val, next]; ok is FALSE where json.loads raises
ParseFails == [ok |-> FALSE, val |-> JNull, next |-> 0]
Parsed(val, next) == [ok |-> TRUE, val |-> val, next |-> next]

RECURSIVE ParseValue(_, _)
RECURSIVE ParseElems(_, _, _)
RECURSIVE ParseMembers(_, _, _)
ParseElems(toks, i, acc) ==
    LET r == ParseValue(toks, i)
    IN  IF ~r.ok THEN ParseFails
        ELSE IF Tok(toks, r.next) = P(",")
             THEN ParseElems(toks, r.next + 1, Append(acc, r.val))
        ELSE IF Tok(toks, r.next) = P("]")
             THEN Parsed(JList(Append(acc, r.val)), r.next + 1)
        ELSE ParseFails
ParseMembers(toks, i, acc) ==
    IF Tok(toks, i).k # "str" \/ Tok(toks, i + 1) # P(":") THEN ParseFails
    ELSE LET r == ParseValue(toks, i + 2)
             d == SetKey(acc, Tok(toks, i).v, r.val)
         IN  IF ~r.ok THEN ParseFails
             ELSE IF Tok(toks, r.next) = P(",") THEN ParseMembers(toks, r.next + 1, d)
             ELSE IF Tok(toks, r.next) = P("}") THEN Parsed(d, r.next + 1)
             ELSE ParseFails
ParseValue(toks, i) ==
    LET t == Tok(toks, i)
    IN  CASE t.k \in {"str", "num", "bool", "null"} -> Parsed(t, i + 1)
          [] t = P("[") ->
                IF Tok(toks, i + 1) = P("]") THEN Parsed(JList(<<>>), i + 2)
                ELSE ParseElems(toks, i + 1, <<>>)
          [] t = P("{") ->
                IF Tok(toks, i + 1) = P("}") THEN Parsed(EmptyDict, i + 2)
                ELSE ParseMembers(toks, i + 1, EmptyDict)
          [] OTHER -> ParseFails

Loads(toks) ==
    LET r == ParseValue(toks, 1)
    IN  IF r.ok /\ r.next = Len(toks) + 1 THEN r ELSE ParseFails

\* blog_demo.models._load_json_field
LoadJsonField(value) ==
    IF value = JNull THEN EmptyDict
    ELSE IF value.k = "text"
         THEN (IF Loads(value.v).ok THEN Loads(value.v).val ELSE EmptyDict)
    ELSE value

(***************************************************************************)
(* The metadata mutation helpers of blog_demo.models                       *)
(***************************************************************************)
MaxCount == 2        \* a metric is incremented up to MaxCount

Procs == {"p1", "p2"}
TagNames == {"a", "b"}
Categories == {"Tutorial", "Guide"}
Reasons == {"spam"}
Stamps == {"t1", "t2"}          \* str(timezone.now())
MetricNames == {"views", "likes"}
Amounts == {1, 2}

\* tag in metadata['tags']
InList(l, x) == \E i \in 1..Len(l.v) : l.v[i] = x

\* a variant of AddTagDoc that appends without looking for the tag
AddTagDocAlways(value, tag) ==
    LET metadata == LoadJsonField(value)
        m1 == IF ~HasKey(metadata, "tags") THEN SetKey(metadata, "tags", JList(<<>>))
              ELSE metadata
    IN  [doc |-> SetKey(m1, "tags", JList(Append(m1.v["tags"].v, JStr(tag)))),
         save |-> TRUE]

\* Post.add_tag up to the save: the metadata it leaves on the instance, and
\* whether it saves
AddTagDoc(value, tag) ==
    LET metadata == LoadJsonField(value)
        m1 == IF ~HasKey(metadata, "tags") THEN SetKey(metadata, "tags", JList(<<>>))
              ELSE metadata
    IN  IF ~InList(m1.v["tags"], JStr(tag))
        THEN [doc |-> SetKey(m1, "tags", JList(Append(m1.v["tags"].v, JStr(tag)))),
              save |-> TRUE]
        ELSE [doc |-> m1, save |-> FALSE]

\* a variant of SetCategoryDoc that keeps nothing but the category
SetCategoryDocOnly(value, category) ==
    [doc |-> SetKey(EmptyDict, "category", JStr(category)), save |-> TRUE]

\* Post.set_category up to the save
SetCategoryDoc(value, category) ==
    [doc |-> SetKey(LoadJsonField(value), "category", JStr(category)), save |-> TRUE]

\* Comment.flag_for_moderation up to the save
FlagDoc(value, reason, at) ==
    [doc |-> SetKey(SetKey(SetKey(LoadJsonField(value), "flagged", JBool(TRUE)),
                           "flag_reason", JStr(reason)),
                    "flagged_at", JStr(at)),
     save |-> TRUE]

\* a variant of IncrementMetricDoc that stores the amount instead of adding it
IncrementMetricDocAssign(value, metric_name, amount) ==
    [doc |-> SetKey(LoadJsonField(value), metric_name, JNum(amount)), save |-> TRUE]

\* Analytics.increment_metric up to the save
IncrementMetricDoc(value, metric_name, amount) ==
    LET metrics == LoadJsonField(value)
        m1 == IF ~HasKey(metrics, metric_name) THEN SetKey(metrics, metric_name, JNum(0))
              ELSE metrics
    IN  [doc |-> SetKey(m1, metric_name, JNum(m1.v[metric_name].v + amount)),
         save |-> TRUE]

NotLoaded == [k |-> "unloaded", v |-> <<>>]

\* the records the helpers are exercised on: the model and the document the
\* record was created with
InitialRecords ==
    {[model |-> "Post", doc |-> SetKey(EmptyDict, "tags", JList(<<JStr("a")>>))],
     [model |-> "Post", doc |-> SetKey(EmptyDict, "seo", SetKey(EmptyDict, "title", JStr("X")))],
     [model |-> "Comment", doc |-> EmptyDict],
     [model |-> "Analytics", doc |-> EmptyDict]}

NoOp(doc) == [op |-> "none", p |-> "none", arg |-> "", pre |-> EmptyDict,
              stale |-> FALSE, saved |-> FALSE, wrote |-> doc]

JsonInit ==
    \E r \in InitialRecords :
        /\ jmodel = r.model
        /\ stored = Dumps(r.doc)
        /\ inst = [p \in Procs |-> NotLoaded]
        /\ jop = NoOp(r.doc)

\* the JSON part at rest, for the specifications that do not exercise it
JsonIdle ==
    /\ jmodel = "Post"
    /\ stored = Dumps(EmptyDict)
    /\ inst = [p \in Procs |-> NotLoaded]
    /\ jop = NoOp(EmptyDict)

\* Model.objects.get(pk=...) / refresh_from_db(): the attribute is the
\* decoded column
LoadInstance(p) ==
    /\ Loads(stored).ok
    /\ inst' = [inst EXCEPT ![p] = Loads(stored).val]
    /\ UNCHANGED <<jmodel, stored, jop>>
    /\ UNCHANGED nonJsonVars

\* the tail of every helper: self.<attribute> = document; self.save(...)
\* writes the encoded document to the column
Helper(p, op, arg, r) ==
    /\ inst' = [inst EXCEPT ![p] = r.doc]
    /\ stored' = IF r.save THEN Dumps(r.doc) ELSE stored
    /\ jop' = [op |-> op, p |-> p, arg |-> arg, pre |-> inst[p],
               stale |-> inst[p] # Loads(stored).val, saved |-> r.save,
               wrote |-> IF r.save THEN r.doc ELSE jop.wrote]
    /\ UNCHANGED jmodel
    /\ UNCHANGED nonJsonVars

\* Post.add_tag
DocAddTag(p, tag) ==
    /\ jmodel = "Post"
    /\ inst[p] # NotLoaded
    /\ Helper(p, "add_tag", tag, AddTagDoc(inst[p], tag))

\* Post.set_category
DocSetCategory(p, category) ==
    /\ jmodel = "Post"
    /\ inst[p] # NotLoaded
    /\ Helper(p, "set_category", category, SetCategoryDoc(inst[p], category))

\* Comment.flag_for_moderation
DocFlagForModeration(p, reason, at) ==
    /\ jmodel = "Comment"
    /\ inst[p] # NotLoaded
    /\ Helper(p, "flag_for_moderation", reason, FlagDoc(inst[p], reason, at))

\* Analytics.increment_metric
DocIncrementMetric(p, metric_name, amount) ==
    /\ jmodel = "Analytics"
    /\ inst[p] # NotLoaded
    /\ IncrementMetricDoc(inst[p], metric_name, amount).doc.v[metric_name].v <= MaxCount
    /\ Helper(p, "increment_metric", metric_name,
              IncrementMetricDoc(inst[p], metric_name, amount))

JsonNext ==
    \/ \E p \in Procs : LoadInstance(p)
    \/ \E p \in Procs, tag \in TagNames : DocAddTag(p, tag)
    \/ \E p \in Procs, c \in Categories : DocSetCategory(p, c)
    \/ \E p \in Procs, r \in Reasons, at \in Stamps : DocFlagForModeration(p, r, at)
    \/ \E p \in Procs, m \in MetricNames, n \in Amounts : DocIncrementMetric(p, m, n)

(***************************************************************************)
(* The helpers on a record whose column text is not a JSON document        *)
(***************************************************************************)
\* column texts json.loads raises on: a document cut short, and a document
\* followed by a stray brace
MalformedTexts ==
    {<<P("{"), JStr("tags"), P(":"), P("["), JStr("a")>>,
     <<P("{"), JStr("category"), P(":"), JStr("Guide"), P("}"), P("}")>>}

WellFormedTexts ==
    {Dumps(SetKey(EmptyDict, "tags", JList(<<JStr("a")>>))), Dumps(EmptyDict)}

\* the record as first found: any model, any column text
UndecodedInit ==
    /\ jmodel \in {"Post", "Comment", "Analytics"}
    /\ stored \in MalformedTexts \cup WellFormedTexts
    /\ inst = [p \in Procs |-> NotLoaded]
    /\ jop = NoOp(EmptyDict)

\* Model.objects.get(pk=...) of a record whose column text does not decode:
\* the attribute is the text itself, a str
LoadUndecoded(p) ==
    /\ ~Loads(stored).ok
    /\ inst' = [inst EXCEPT ![p] = JText(stored)]
    /\ UNCHANGED <<jmodel, stored, jop>>
    /\ UNCHANGED nonJsonVars

UndecodedNext ==
    \/ \E p \in Procs : LoadInstance(p)
    \/ \E p \in Procs : LoadUndecoded(p)
    \/ \E p \in Procs, tag \in TagNames : DocAddTag(p, tag)
    \/ \E p \in Procs, c \in Categories : DocSetCategory(p, c)
    \/ \E p \in Procs, r \in Reasons, at \in Stamps : DocFlagForModeration(p, r, at)
    \/ \E p \in Procs, m \in MetricNames, n \in Amounts : DocIncrementMetric(p, m, n)

(***************************************************************************)
(* JSONQueryMixin and DatabaseOperations.json_extract_sql                  *)
(***************************************************************************)
MaxPosts == 2        \* the table holds 0..MaxPosts records

\* the names Django resolves as a lookup of a JSONField, not as a key
LookupNames ==
    {"exact", "iexact", "contains", "icontains", "contained_by", "has_key",
     "has_keys", "has_any_keys", "isnull", "in", "gt", "gte", "lt", "lte",
     "startswith", "istartswith", "endswith", "iendswith", "range", "regex",
     "iregex"}

\* MariaDB JSON_CONTAINS(target, candidate) for a scalar candidate
DataContains(target, candidate) ==
    IF target.k = "obj" THEN FALSE
    ELSE IF target.k = "list" THEN \E i \in 1..Len(target.v) : target.v[i] = candidate
    ELSE target = candidate

\* filter(**{f"{field_name}__{key}": value}) on one document: a lookup name
\* selects that lookup; any other name is one key of the document, compared
\* with exact
LookupMatches(doc, key, value) ==
    IF key \in LookupNames
    THEN key = "contains" /\ DataContains(doc, JStr(value))
    ELSE HasKey(doc, key) /\ doc.v[key] = JStr(value)

\* the member steps of the MariaDB JSON path '$.' + path
PathSteps(path) ==
    CASE path = "seo.title" -> <<"seo", "title">>
      [] OTHER -> <<path>>

SqlNull == [k |-> "sqlnull", v |-> ""]

\* JSON_EXTRACT(doc, path): the value at the path, NULL when it is absent
RECURSIVE JsonExtractAt(_, _)
JsonExtractAt(doc, steps) ==
    IF steps = <<>> THEN doc
    ELSE IF doc.k = "obj" /\ HasKey(doc, Head(steps))
         THEN JsonExtractAt(doc.v[Head(steps)], Tail(steps))
    ELSE SqlNull

\* the documents records are created with, and the keys, paths and values
\* of the queries
QueryDocs ==
    {SetKey(EmptyDict, "category", JStr("Tutorial")),
     SetKey(EmptyDict, "category", JStr("Guide")),
     EmptyDict,
     SetKey(EmptyDict, "contains", JStr("Tutorial")),
     SetKey(EmptyDict, "seo", SetKey(EmptyDict, "title", JStr("X"))),
     SetKey(EmptyDict, "seo.title", JStr("X"))}
QueryKeys == {"category", "contains", "seo.title"}
QueryValues == {"Tutorial", "X"}

NoQuery == [op |-> "none", key |-> "", value |-> "", outcome |-> "none",
            ids |-> {}, values |-> <<>>]

QueryIdle ==
    /\ posts = <<>>
    /\ qres = NoQuery

\* Post.objects.create(..., metadata=doc)
CreatePost(doc) ==
    /\ Len(posts) < MaxPosts
    /\ posts' = Append(posts, doc)
    /\ qres' = NoQuery
    /\ UNCHANGED nonQueryVars

\* JSONQueryMixin.json_contains(field_name, key, value), evaluated
JsonContains(key, value) ==
    /\ qres' = [op |-> "json_contains", key |-> key, value |-> value,
                outcome |-> "ok",
                ids |-> {n \in 1..Len(posts) : LookupMatches(posts[n], key, value)},
                values |-> <<>>]
    /\ UNCHANGED posts
    /\ UNCHANGED nonQueryVars

\* JSONQueryMixin.json_extract(field_name, path): the name Value is not
\* bound in the module, so building the annotation raises NameError
JsonExtract(path) ==
    /\ qres' = [op |-> "json_extract", key |-> path, value |-> "",
                outcome |-> "NameError", ids |-> {}, values |-> <<>>]
    /\ UNCHANGED posts
    /\ UNCHANGED nonQueryVars

\* SELECT with DatabaseOperations.json_extract_sql(field_name, path)
JsonExtractSql(path) ==
    /\ qres' = [op |-> "json_extract_sql", key |-> path, value |-> "",
                outcome |-> "ok", ids |-> {},
                values |-> [n \in 1..Len(posts) |->
                               JsonExtractAt(posts[n], PathSteps(path))]]
    /\ UNCHANGED posts
    /\ UNCHANGED nonQueryVars

QueryNext ==
    \/ \E doc \in QueryDocs : CreatePost(doc)
    \/ \E key \in QueryKeys, value \in QueryValues : JsonContains(key, value)
    \/ \E path \in QueryKeys : JsonExtract(path)
    \/ \E path \in QueryKeys : JsonExtractSql(path)

(***************************************************************************)
(* DatabaseOperations.get_mariadb_version / check_mariadb_version          *)
(***************************************************************************)
\* what SELECT VERSION() answers
Replies ==
    {<<"1", "0", ".", "5">> \o SfxMariaDB,
     <<"1", "0", ".", "5", ".", "0">> \o SfxMariaDB,
     <<"1", "0", ".", "1", "1", ".", "2">> \o SfxMariaDB,
     <<"1", "0", ".", "4", ".", "9">> \o SfxMariaDB,
     <<"1", "1", ".", "4", ".", "2">> \o SfxMariaDB}

\* the minimum a caller passes; (10, 5, 0) is the default
Minimums == {<<10, 5, 0>>, <<10, 5>>, <<10, 5, 0, 0>>, <<10, 11>>, <<11, 0, 0>>}

\* self.mariadb_version = None
NoVersion == <<>>

\* tuple(int(x) for x in version_string.split('-')[0].split('.'))
ParseVersion(version_string) ==
    LET version_parts == Split(Split(version_string, "-")[1], ".")
    IN  [i \in 1..Len(version_parts) |-> IntOf(version_parts[i])]

\* Python tuple comparison a >= b
RECURSIVE TupleGeq(_, _)
TupleGeq(a, b) ==
    IF b = <<>> THEN TRUE
    ELSE IF a = <<>> THEN FALSE
    ELSE IF a[1] # b[1] THEN a[1] > b[1]
    ELSE TupleGeq(Tail(a), Tail(b))

NoVersionCall == [op |-> "none", minimum |-> <<>>, tuple |-> <<>>, result |-> FALSE]

\* DatabaseOperations.__init__, on a connection to a server with that reply
NewOperations(reply) ==
    [reply |-> reply, mariadb_version |-> NoVersion, reads |-> 0,
     call |-> NoVersionCall]

\* the instance after get_mariadb_version
AfterGet(o) ==
    IF o.mariadb_version = NoVersion
    THEN [o EXCEPT !.mariadb_version = ParseVersion(o.reply), !.reads = o.reads + 1]
    ELSE o

VersionInit == \E reply \in Replies : ops = NewOperations(reply)

\* the version part at rest, for the specifications that do not exercise it
VersionIdle == ops = NewOperations(<<"1", "0", ".", "5", ".", "0">> \o SfxMariaDB)

\* DatabaseOperations.get_mariadb_version
GetMariadbVersion ==
    /\ ops' = [AfterGet(ops) EXCEPT
                  !.call = [op |-> "get", minimum |-> <<>>,
                            tuple |-> AfterGet(ops).mariadb_version,
                            result |-> FALSE]]
    /\ UNCHANGED nonVersionVars

\* DatabaseOperations.check_mariadb_version
CheckMariadbVersion(minimum) ==
    /\ ops' = [AfterGet(ops) EXCEPT
                  !.call = [op |-> "check", minimum |-> minimum,
                            tuple |-> AfterGet(ops).mariadb_version,
                            result |-> TupleGeq(AfterGet(ops).mariadb_version,
                                                minimum)]]
    /\ UNCHANGED nonVersionVars

\* the server is upgraded or replaced while the instance lives on
ServerRestart(reply) ==
    /\ reply # ops.reply
    /\ ops' = [ops EXCEPT !.reply = reply]
    /\ UNCHANGED nonVersionVars

VersionNext ==
    \/ GetMariadbVersion
    \/ \E minimum \in Minimums : CheckMariadbVersion(minimum)
    \/ \E reply \in Replies : ServerRestart(reply)

(***************************************************************************)
(* Post.save and the embedding of the content                              *)
(***************************************************************************)
Contents == {"", "text"}

\* np.random.rand(384): some vector of the declared dimension
Embeddings == {NdArray(<<"0.5", "-1.0">>), NdArray(<<"-1.0", "0.5">>)}

\* the values a caller assigns to post.content_vector
AssignedVectors == {PyNone, NdArray(<<>>), NdArray(<<"0.5", "0.5">>)}

\* self.content and (self.content_vector is None or len(self.content_vector) == 0)
NeedsEmbedding(inst_) ==
    /\ inst_.content # ""
    /\ (inst_.content_vector = PyNone \/ Len(inst_.content_vector.elems) = 0)

\* the instance after the first two lines of Post.save, e being the vector
\* generate_embedding returns
AfterHook(inst_, e, op) ==
    [content |-> inst_.content,
     content_vector |-> IF NeedsEmbedding(inst_) THEN e ELSE inst_.content_vector,
     op |-> op,
     generated |-> NeedsEmbedding(inst_),
     before |-> inst_.content_vector]

EmbedIdle ==
    /\ instance = [content |-> "", content_vector |-> PyNone, op |-> "none",
                   generated |-> FALSE, before |-> PyNone]
    /\ dbrow = [saved |-> FALSE, content |-> "", content_vector |-> PyNone]

\* post.content = c
AssignContent(c) ==
    /\ instance' = [instance EXCEPT !.content = c, !.op = "assign",
                                    !.generated = FALSE,
                                    !.before = instance.content_vector]
    /\ UNCHANGED dbrow
    /\ UNCHANGED nonEmbedVars

\* post.content_vector = v
AssignVector(v) ==
    /\ instance' = [instance EXCEPT !.content_vector = v, !.op = "assign",
                                    !.generated = FALSE,
                                    !.before = instance.content_vector]
    /\ UNCHANGED dbrow
    /\ UNCHANGED nonEmbedVars

\* Post.save(): the hook, then super().save() writes every column
VecSave ==
    \E e \in Embeddings :
        /\ instance' = AfterHook(instance, e, "save")
        /\ dbrow' = [saved |-> TRUE, content |-> instance'.content,
                     content_vector |-> GetPrepValue(instance'.content_vector)]
        /\ UNCHANGED nonEmbedVars

\* Post.save(update_fields=['metadata']): the hook, then super().save()
\* writes the metadata column only
SaveMetadata(op) ==
    \E e \in Embeddings :
        /\ dbrow.saved
        /\ instance' = AfterHook(instance, e, op)
        /\ UNCHANGED dbrow
        /\ UNCHANGED nonEmbedVars

\* Post.set_category on the instance
VecSetCategory ==
    /\ dbrow.saved
    /\ SaveMetadata("set_category")

\* Post.add_tag on the instance: saves when the tag is new, and does nothing
\* otherwise
VecAddTag(tagIsNew) ==
    IF tagIsNew THEN SaveMetadata("add_tag")
    ELSE /\ dbrow.saved
         /\ instance' = [instance EXCEPT !.op = "add_tag_present",
                                         !.generated = FALSE,
                                         !.before = instance.content_vector]
         /\ UNCHANGED dbrow
         /\ UNCHANGED nonEmbedVars

\* post.refresh_from_db()
Refresh ==
    /\ dbrow.saved
    /\ instance' = [content |-> dbrow.content,
                    content_vector |-> FromDbValue(dbrow.content_vector),
                    op |-> "refresh", generated |-> FALSE,
                    before |-> instance.content_vector]
    /\ UNCHANGED dbrow
    /\ UNCHANGED nonEmbedVars

EmbedNext ==
    \/ \E c \in Contents : AssignContent(c)
    \/ \E v \in AssignedVectors : AssignVector(v)
    \/ VecSave
    \/ VecSetCategory
    \/ \E tagIsNew \in BOOLEAN : VecAddTag(tagIsNew)
    \/ Refresh

InitCodec == CodecInit /\ TemporalIdle /\ SearchIdle /\ JsonIdle /\ QueryIdle /\ EmbedIdle
    /\ VersionIdle

SpecCodec == InitCodec /\ [][CodecNext]_vars

InitSearch == TemporalIdle /\ CodecIdle /\ SearchIdle /\ JsonIdle /\ QueryIdle /\ EmbedIdle
    /\ VersionIdle

SpecSearch == InitSearch /\ [][SearchNext]_vars

TemporalInit ==
    /\ engine \in Engines
    /\ schema = [t \in Tables |-> [cols |-> BaseCols, versioned |-> FALSE]]
    /\ rows = [t \in Tables |-> {}]
    /\ nextId = [t \in Tables |-> 1]
    /\ now = 1
    /\ lastCall = NoCall
    /\ hist = NoHist

Init == TemporalInit /\ CodecIdle /\ SearchIdle /\ JsonIdle /\ QueryIdle /\ EmbedIdle
    /\ VersionIdle

InitJson == TemporalIdle /\ CodecIdle /\ SearchIdle /\ JsonInit /\ QueryIdle /\ EmbedIdle
    /\ VersionIdle

InitUndecoded == TemporalIdle /\ CodecIdle /\ SearchIdle /\ UndecodedInit /\ QueryIdle /\ EmbedIdle
    /\ VersionIdle

SpecUndecoded == InitUndecoded /\ [][UndecodedNext]_vars

InitEmbed ==
    /\ TemporalIdle /\ CodecIdle /\ SearchIdle /\ JsonIdle /\ QueryIdle /\ EmbedIdle
    /\ VersionIdle

SpecEmbed == InitEmbed /\ [][EmbedNext]_vars

InitVersion ==
    /\ TemporalIdle /\ CodecIdle /\ SearchIdle /\ JsonIdle /\ QueryIdle /\ EmbedIdle
    /\ VersionInit

SpecVersion == InitVersion /\ [][VersionNext]_vars

InitQuery == TemporalIdle /\ CodecIdle /\ SearchIdle /\ JsonIdle /\ QueryIdle /\ EmbedIdle
    /\ VersionIdle

SpecQuery == InitQuery /\ [][QueryNext]_vars

SpecJson == InitJson /\ [][JsonNext]_vars

(***************************************************************************)
(* Temporal lifecycle actions                                              *)
(***************************************************************************)
\* The clock has the resolution of a microsecond: every statement that
\* writes runs at an instant of its own, and time also passes between them.
CanWrite == now <= MaxTime
Clock(wrote) == IF wrote THEN now + 1 ELSE now

Tick ==
    /\ CanWrite
    /\ now' = now + 1
    /\ lastCall' = NoCall
    /\ hist' = NoHist
    /\ UNCHANGED <<engine, schema, rows, nextId>>
    /\ UNCHANGED otherVars

\* TemporalMixin.enable_temporal: SELECT VERSION(), the checks, and the
\* ALTER TABLE when they pass
EnableTemporal(t) ==
    /\ \E queryFails \in BOOLEAN :
         LET sv == ServerVersion(engine, queryFails)
             r == EnableTemporalSql(engine, schema[t])
         IN  IF CheckRaises(sv)
             THEN /\ lastCall' = [op |-> "enable_temporal", table |-> t,
                                  pre |-> schema[t], alter |-> FALSE,
                                  outcome |-> "RuntimeError",
                                  queryFailed |-> queryFails]
                  /\ UNCHANGED <<schema, rows, now>>
             ELSE /\ CanWrite
                  /\ now' = Clock(r.outcome = "ok")
                  /\ schema' = [schema EXCEPT ![t] = r.schema]
                  /\ rows' = [rows EXCEPT ![t] =
                                 IF r.outcome = "ok" THEN AlterRows(rows[t], now)
                                 ELSE rows[t]]
                  /\ lastCall' = [op |-> "enable_temporal", table |-> t,
                                  pre |-> schema[t], alter |-> TRUE,
                                  outcome |-> r.outcome, queryFailed |-> queryFails]
    /\ hist' = NoHist
    /\ UNCHANGED <<engine, nextId>>
    /\ UNCHANGED otherVars

\* DatabaseWrapper.create_temporal_table
CreateTemporalTable(t) ==
    /\ WrapperConnects(engine)
    /\ CanWrite
    /\ LET r == EnableTemporalTableSql(engine, schema[t])
       IN  /\ now' = Clock(r.outcome = "ok" /\ ~schema[t].versioned)
           /\ schema' = [schema EXCEPT ![t] = r.schema]
           /\ rows' = [rows EXCEPT ![t] =
                          IF r.outcome = "ok" THEN AlterRows(rows[t], now) ELSE rows[t]]
           /\ lastCall' = [op |-> "create_temporal_table", table |-> t,
                           pre |-> schema[t], alter |-> TRUE, outcome |-> r.outcome,
                           queryFailed |-> FALSE]
    /\ hist' = NoHist
    /\ UNCHANGED <<engine, nextId>>
    /\ UNCHANGED otherVars

(***************************************************************************)
(* ORM actions on Post and Comment.  Every request builds its own model    *)
(* instances, so an instance of any record that was ever created may still *)
(* be held by some caller, also after the record was deleted.              *)
(***************************************************************************)
\* some caller holds an instance of record id of table t
Held(t, id) == id \in Ids /\ id < nextId[t]

\* Post.objects.create / Comment.objects.create
Create(t) ==
    /\ nextId[t] \in Ids
    /\ CanWrite
    /\ now' = now + 1
    /\ rows' = [rows EXCEPT ![t] = SqlInsert(rows[t], schema[t].versioned, nextId[t], now)]
    /\ nextId' = [nextId EXCEPT ![t] = nextId[t] + 1]
    /\ lastCall' = NoCall
    /\ hist' = NoHist
    /\ UNCHANGED <<engine, schema>>
    /\ UNCHANGED otherVars

\* the admin's delete of a record (delete view, delete_selected, CASCADE)
Delete(t, id) ==
    /\ Exists(rows[t], id)
    /\ CanWrite
    /\ now' = now + 1
    /\ rows' = [rows EXCEPT ![t] = SqlDelete(rows[t], schema[t].versioned, id, now)]
    /\ lastCall' = NoCall
    /\ hist' = NoHist
    /\ UNCHANGED <<engine, schema, nextId>>
    /\ UNCHANGED otherVars

\* Comment.flag_for_moderation: rewrites metadata, is_approved and calls
\* self.save()
FlagForModeration(id) ==
    /\ Held("blog_demo_comment", id)
    /\ CanWrite
    /\ now' = now + 1
    /\ LET t == "blog_demo_comment"
       IN  rows' = [rows EXCEPT ![t] = ModelSave(rows[t], schema[t].versioned, id, now)]
    /\ lastCall' = NoCall
    /\ hist' = NoHist
    /\ UNCHANGED <<engine, schema, nextId>>
    /\ UNCHANGED otherVars

\* Post.save(): super().save() after the embedding hook
PostSave(id) ==
    /\ Held("blog_demo_post", id)
    /\ CanWrite
    /\ now' = now + 1
    /\ LET t == "blog_demo_post"
       IN  rows' = [rows EXCEPT ![t] = ModelSave(rows[t], schema[t].versioned, id, now)]
    /\ lastCall' = NoCall
    /\ hist' = NoHist
    /\ UNCHANGED <<engine, schema, nextId>>
    /\ UNCHANGED otherVars

\* Post.set_category: rewrites metadata and calls save(update_fields=['metadata'])
SetCategory(id) ==
    /\ Held("blog_demo_post", id)
    /\ CanWrite
    /\ now' = now + 1
    /\ LET t == "blog_demo_post"
       IN  rows' = [rows EXCEPT ![t] =
                       ModelSaveFields(rows[t], schema[t].versioned, id, now)]
    /\ lastCall' = NoCall
    /\ hist' = NoHist
    /\ UNCHANGED <<engine, schema, nextId>>
    /\ UNCHANGED otherVars

\* Post.add_tag: calls save(update_fields=['metadata']) when the tag is not
\* yet in metadata['tags'], and does nothing otherwise
AddTag(id) ==
    /\ Held("blog_demo_post", id)
    /\ CanWrite
    /\ \E tagIsNew \in BOOLEAN :
         LET t == "blog_demo_post"
         IN  /\ rows' = [rows EXCEPT ![t] =
                            IF tagIsNew
                            THEN ModelSaveFields(rows[t], schema[t].versioned, id, now)
                            ELSE rows[t]]
             /\ now' = Clock(tagIsNew)
    /\ lastCall' = NoCall
    /\ hist' = NoHist
    /\ UNCHANGED <<engine, schema, nextId>>
    /\ UNCHANGED otherVars

\* TemporalMixin.get_history(pk, start_date, end_date).  The call reads only;
\* hist holds its result until the next operation.  A query that follows
\* another query sees the same tables and adds no state, so it is taken from
\* a state that holds no result.
GetHistory(t, pk, start_date, end_date) ==
    /\ hist = NoHist
    /\ IF schema[t].versioned
       THEN \E q \in Orderings(HistoryRows(rows[t], pk, start_date, end_date)) :
                hist' = [table |-> t, pk |-> pk, start |-> start_date,
                         end |-> end_date, outcome |-> "ok", result |-> q]
       ELSE hist' = [table |-> t, pk |-> pk, start |-> start_date, end |-> end_date,
                     outcome |-> "NotVersioned", result |-> <<>>]
    /\ lastCall' = NoCall
    /\ UNCHANGED <<engine, schema, rows, nextId, now>>
    /\ UNCHANGED otherVars

Dates == 0..(MaxTime + 1)     \* NoTime stands for an absent bound

Next ==
    \/ Tick
    \/ \E t \in Tables : EnableTemporal(t)
    \/ \E t \in Tables : CreateTemporalTable(t)
    \/ \E t \in Tables : Create(t)
    \/ \E t \in Tables, id \in Ids : Delete(t, id)
    \/ \E id \in Ids : FlagForModeration(id)
    \/ \E id \in Ids : PostSave(id)
    \/ \E id \in Ids : SetCategory(id)
    \/ \E id \in Ids : AddTag(id)
    \/ \E t \in Tables, pk \in Ids, s \in Dates, e \in Dates : GetHistory(t, pk, s, e)

Spec == Init /\ [][Next]_vars

(***************************************************************************)
(* Claims about the temporal lifecycle, checked under Spec                 *)
(***************************************************************************)
EnableOps == {"enable_temporal", "create_temporal_table"}

\* C1: an enable call on a table that is already Enabled raises no schema
\* error and leaves the schema as it was.
C1_SecondEnableIsNoOp ==
    (lastCall.op \in EnableOps /\ lastCall.pre.versioned /\ ~lastCall.queryFailed)
        => /\ lastCall.outcome = "ok"
           /\ schema[lastCall.table] = lastCall.pre

\* C2: on an engine that is not MariaDB, is older than 10.3, or whose version
\* cannot be read or parsed, every enable call ends in the version check's
\* error and the ALTER TABLE is never sent.
C2_GatedOnEveryPath ==
    (lastCall.op \in EnableOps
       /\ (~Capable(engine) \/ ~engine.readable \/ lastCall.queryFailed))
        => /\ lastCall.outcome = "RuntimeError"
           /\ ~lastCall.alter

\* C3: a table that is Enabled stays Enabled, and a table becomes Enabled only
\* in the step of an enable call that sent its ALTER TABLE to an engine that
\* is MariaDB 10.3 or later and got no error.
C3_EnabledIsTerminal ==
    [][\A t \in Tables :
          /\ schema[t].versioned => schema'[t].versioned
          /\ (~schema[t].versioned /\ schema'[t].versioned)
                => /\ lastCall'.op \in EnableOps
                   /\ lastCall'.table = t
                   /\ lastCall'.alter
                   /\ lastCall'.outcome = "ok"
                   /\ Capable(engine)]_vars

\* C3 witness: an enable call was made on a table that was Enabled already,
\* and the table is Enabled after it.
C3_Witness ==
    /\ lastCall.op \in EnableOps
    /\ lastCall.pre.versioned
    /\ schema[lastCall.table].versioned

\* the rows of the queried record whose interval overlaps the queried range
Overlapping(rs, pk, start_date, end_date) ==
    {r \in rs : /\ r.id = pk
                /\ ~(start_date # NoTime /\ r.row_end < start_date)
                /\ ~(end_date # NoTime /\ r.row_start > end_date)}

Range(q) == {q[i] : i \in DOMAIN q}

\* C4: a history query returns exactly the rows of the record whose interval
\* overlaps the range: every row except those that end before the start or
\* start after the end.
C4_ReturnsOverlappingRows ==
    hist.outcome = "ok"
        => Range(hist.result) = Overlapping(rows[hist.table], hist.pk, hist.start, hist.end)

\* C5: no row returned by a history query ends before the start of the range,
\* starts after its end, or belongs to another record.
C5_NothingOutsideRange ==
    hist.outcome = "ok"
        => \A i \in DOMAIN hist.result :
              LET r == hist.result[i]
              IN  /\ r \in rows[hist.table]
                  /\ r.id = hist.pk
                  /\ (hist.start # NoTime => r.row_end >= hist.start)
                  /\ (hist.end # NoTime => r.row_start <= hist.end)

\* C5 witness: a query with both bounds returned a row while the table holds
\* a row of another record and a row of the same record that was left out.
C5_Witness ==
    /\ hist.outcome = "ok"
    /\ hist.start # NoTime
    /\ hist.end # NoTime
    /\ hist.result # <<>>
    /\ \E r \in rows[hist.table] : r.id # hist.pk
    /\ \E r \in rows[hist.table] : r.id = hist.pk /\ r \notin Range(hist.result)

\* C6: the result of a query without a range is ordered by interval start,
\* ascending, and the last entry of a record that exists has the open end.
C6_OrderedByStart ==
    (hist.outcome = "ok" /\ hist.start = NoTime /\ hist.end = NoTime)
        => /\ \A i, j \in DOMAIN hist.result :
                 i < j => hist.result[i].row_start < hist.result[j].row_start
           /\ Exists(rows[hist.table], hist.pk)
                 => hist.result[Len(hist.result)].row_end = OpenEnd

\* C7: on a versioned table the intervals of one record never overlap, leave
\* no gap between the first and the last, and at most one of them is open.
C7_IntervalsContiguous ==
    \A t \in Tables, id \in Ids :
        schema[t].versioned =>
            LET R == {r \in rows[t] : r.id = id}
            IN  /\ \A a, b \in R :
                       a # b => (a.row_end <= b.row_start \/ b.row_end <= a.row_start)
                /\ \A a \in R :
                       a.row_end # OpenEnd
                          => \/ \E b \in R : b.row_start = a.row_end
                             \/ \A b \in R : b.row_end <= a.row_end
                /\ Cardinality({r \in R : r.row_end = OpenEnd}) <= 1

(***************************************************************************)
(* Claims about the vector codec, checked under SpecCodec                  *)
(***************************************************************************)
\* C8: a vector that was saved and loaded again comes back as a float64
\* array with the same elements in the same order, and None comes back as
\* None.
C8_RoundTrip ==
    decoded.via = "from_db_value"
        => /\ pyval.kind = "none" => decoded.value = PyNone
           /\ pyval.kind \in {"ndarray", "list", "tuple"}
                 => /\ decoded.value.kind = "ndarray"
                    /\ Len(decoded.value.elems) = Len(pyval.elems)
                    /\ \A i \in 1..Len(pyval.elems) :
                           decoded.value.elems[i] = AsFloat64(pyval.elems[i])

\* C8 witness: an array of the declared length with two different elements
\* was saved and loaded.
C8_Witness ==
    /\ decoded.via = "from_db_value"
    /\ pyval.kind = "ndarray"
    /\ Len(pyval.elems) = field.dimensions
    /\ \E i, j \in 1..Len(pyval.elems) : pyval.elems[i] # pyval.elems[j]

\* C9: every stored blob has exactly dimensions * 8 bytes.
C9_StoredLengthIsDeclared ==
    blob.kind = "bytes" => Len(blob.elems) = field.dimensions * BytesPerFloat

\* C10: loading a blob whose byte length is not dimensions * 8 fails; it never
\* yields an array.
C10_DecodeRejectsWrongLength ==
    (decoded.via = "from_db_value" /\ blob.kind = "bytes"
       /\ Len(blob.elems) # field.dimensions * BytesPerFloat)
        => decoded.value.kind = "ValueError"

\* C11: to_python returns an array (or None) or fails; a value that is no
\* array, list, tuple or bytes is never handed back as it came.
C11_RejectsOtherSources ==
    decoded.via = "to_python"
        => decoded.value.kind \in {"none", "ndarray", "ValueError", "UnsupportedVectorSource"}

(***************************************************************************)
(* Claims about the similarity search, checked under SpecSearch            *)
(***************************************************************************)
\* the score of the query against record n, and the records that qualify
ScoreOf(n) == CosineSimilarity(found.vector, cands[n])
Qualifying ==
    {n \in 1..Len(cands) :
        cands[n] # NoVector /\ ScoreGeq(ScoreOf(n), found.threshold)}
ResultIds == {found.results[i].id : i \in DOMAIN found.results}

\* the three properties of a result: its size, its floor, its order
WithinLimit ==
    /\ Len(found.results) <= found.limit
    /\ \A i \in DOMAIN found.results :
           ScoreGeq(found.results[i].score, found.threshold)
    /\ \A i, j \in DOMAIN found.results :
           i < j => ScoreGeq(found.results[i].score, found.results[j].score)

\* C12 as stated: for every limit, a search returns at most limit results,
\* none below the threshold, sorted by descending score.
C12_WithinLimitAnyLimit == found.outcome = "ok" => WithinLimit

\* C12: for every limit >= 0, a search returns at most limit results, none
\* below the threshold, sorted by descending score.
C12_WithinLimit == (found.outcome = "ok" /\ found.limit >= 0) => WithinLimit

\* C12 witness: a search cut its results down to a limit of at least two
\* and returned different scores.
C12_Witness ==
    /\ found.outcome = "ok"
    /\ found.limit >= 2
    /\ Len(found.results) = found.limit
    /\ Cardinality(Qualifying) > found.limit
    /\ \E i, j \in DOMAIN found.results :
           ~ScoreGeq(found.results[j].score, found.results[i].score)

\* record a is ranked before record b: a higher score, or the same score and
\* earlier in iteration order
RankedBefore(a, b) ==
    \/ ~ScoreGeq(ScoreOf(b), ScoreOf(a))
    \/ ScoreEq(ScoreOf(a), ScoreOf(b)) /\ a < b

\* C13: a search with limit >= 0 returns the first limit of the qualifying
\* records ranked by descending score, ties in iteration order, each with its
\* score; candidates [1,0], [0,1], [1,0] with query [1,0], threshold 0.9 and
\* limit 10 give records 1 and 3 with score 1.0.
C13_FirstLimitRanked ==
    /\ (found.outcome = "ok" /\ found.limit >= 0)
          => /\ ResultIds \subseteq Qualifying
             /\ \A i \in DOMAIN found.results :
                    found.results[i].score = ScoreOf(found.results[i].id)
             /\ \A i, j \in DOMAIN found.results :
                    i < j => RankedBefore(found.results[i].id, found.results[j].id)
             /\ Len(found.results) =
                    IF found.limit < Cardinality(Qualifying) THEN found.limit
                    ELSE Cardinality(Qualifying)
             /\ \A q \in Qualifying \ ResultIds :
                    \A i \in DOMAIN found.results : RankedBefore(found.results[i].id, q)
    /\ (/\ cands = <<Vec("one", <<1, 0>>), Vec("one", <<0, 1>>), Vec("one", <<1, 0>>)>>
        /\ found.outcome # "none"
        /\ found.vector = Vec("one", <<1, 0>>)
        /\ found.threshold = Score(9, 100)
        /\ found.limit = DefaultLimit)
          => /\ found.outcome = "ok"
             /\ found.results = <<[id |-> 1, score |-> One], [id |-> 3, score |-> One]>>

\* C13 witness: the search of the example was made.
C13_Witness ==
    /\ cands = <<Vec("one", <<1, 0>>), Vec("one", <<0, 1>>), Vec("one", <<1, 0>>)>>
    /\ found.outcome = "ok"
    /\ found.vector = Vec("one", <<1, 0>>)
    /\ found.threshold = Score(9, 100)
    /\ found.limit = DefaultLimit

\* C14: a record without a vector is never in a result, whatever the
\* threshold, and it raises nothing: a search over records whose vectors all
\* have the length of the query succeeds.
C14_AbsentVectorSkipped ==
    /\ found.outcome = "ok"
          => \A i \in DOMAIN found.results : cands[found.results[i].id] # NoVector
    /\ (/\ found.outcome # "none"
        /\ \A n \in 1..Len(cands) :
               cands[n] # NoVector => Len(cands[n].comps) = Len(found.vector.comps))
          => found.outcome = "ok"

\* C14 witness: a search with a threshold of 0.0 or less over records of
\* which one has no vector returned something.
C14_Witness ==
    /\ found.outcome = "ok"
    /\ ScoreGeq(Zero, found.threshold)
    /\ \E n \in 1..Len(cands) : cands[n] = NoVector
    /\ found.results # <<>>

NonZero(v) == \E i \in 1..Len(v.comps) : v.comps[i] # 0

\* C15: the score of a non-zero vector against itself is 1.0, and the score
\* of any vector against a zero vector is 0.0.
C15_SelfIsOneZeroIsZero ==
    (found.outcome = "ok" /\ found.limit = DefaultLimit)
        => \A n \in 1..Len(cands) :
              /\ (cands[n] = found.vector /\ NonZero(found.vector)
                    /\ ScoreGeq(One, found.threshold))
                    => \E i \in DOMAIN found.results :
                           /\ found.results[i].id = n
                           /\ ScoreEq(found.results[i].score, One)
              /\ (cands[n] # NoVector /\ ~NonZero(found.vector)
                    /\ ScoreGeq(Zero, found.threshold))
                    => \E i \in DOMAIN found.results :
                           /\ found.results[i].id = n
                           /\ found.results[i].score = Zero

\* C16: a search whose query differs in length from the vector of some
\* record raises and returns no score.
C16_LengthMismatchRaises ==
    (/\ found.outcome # "none"
     /\ \E n \in 1..Len(cands) :
            cands[n] # NoVector /\ Len(cands[n].comps) # Len(found.vector.comps))
        => /\ found.outcome = "ValueError"
           /\ found.results = <<>>

\* C16 witness: a search met a record of another length behind one of the
\* query's length.
C16_Witness ==
    /\ found.outcome = "ValueError"
    /\ Len(cands) >= 2
    /\ Len(cands[1].comps) = Len(found.vector.comps)
    /\ cands[1] # NoVector

(***************************************************************************)
(* Claims about the metadata helpers, checked under SpecJson               *)
(***************************************************************************)
TagsOf(d) == IF HasKey(d, "tags") THEN d.v["tags"].v ELSE <<>>
Occurrences(l, x) == Cardinality({i \in 1..Len(l) : l[i] = x})
ExampleDoc == SetKey(EmptyDict, "tags", JList(<<JStr("a")>>))
ExampleDocB == SetKey(EmptyDict, "tags", JList(<<JStr("a"), JStr("b")>>))

\* C17: after add_tag(t) on an instance that holds the stored document, the
\* stored tags hold t exactly once, behind the tags that were there, and
\* every other key is as before; when t was there already nothing changes;
\* {"tags": ["a"]} with "b" added gives {"tags": ["a", "b"]}, also when "b"
\* is added again.
C17_AddTagIdempotent ==
    (jop.op = "add_tag" /\ ~jop.stale)
        => LET pre == jop.pre
               post == Loads(stored).val
               t == JStr(jop.arg)
           IN  /\ Loads(stored).ok
               /\ post = inst[jop.p]
               /\ Occurrences(TagsOf(post), t) = 1
               /\ SubSeq(TagsOf(post), 1, Len(TagsOf(pre))) = TagsOf(pre)
               /\ DOMAIN post.v = DOMAIN pre.v \cup {"tags"}
               /\ \A key \in DOMAIN pre.v \ {"tags"} : post.v[key] = pre.v[key]
               /\ Occurrences(TagsOf(pre), t) = 1 => (post = pre /\ ~jop.saved)
               /\ (pre \in {ExampleDoc, ExampleDocB} /\ jop.arg = "b") => post = ExampleDocB

\* C17 witness: "b" was added a second time to {"tags": ["a", "b"]}.
C17_Witness ==
    /\ jop.op = "add_tag"
    /\ ~jop.stale
    /\ jop.arg = "b"
    /\ jop.pre = ExampleDocB
    /\ Loads(stored).val = ExampleDocB

\* C18: whatever the helpers do in whatever order and on whatever instance,
\* the stored text parses as a JSON object, and that object is the whole
\* document of the helper call that saved last (or the initial document).
C18_NeverCorrupted ==
    /\ Loads(stored).ok
    /\ Loads(stored).val.k = "obj"
    /\ Loads(stored).val = jop.wrote

\* C18 witness: a helper saved from an instance that did not hold the stored
\* document, while another caller holds a third document.
C18_Witness ==
    /\ jop.stale
    /\ jop.saved
    /\ \E p \in Procs :
           /\ p # jop.p
           /\ inst[p] # NotLoaded
           /\ inst[p] # inst[jop.p]
           /\ inst[p] # jop.pre

MetricOf(d, name) == IF HasKey(d, name) THEN d.v[name].v ELSE 0

\* C22: increment_metric(name, amount) on an instance that holds the stored
\* document makes the stored metrics[name] its previous stored value (0 when
\* missing) plus amount and leaves every other key as it was; a sequence of
\* such calls therefore adds the sum of its amounts.
C22_IncrementAddsAmount ==
    [][\A p \in Procs, name \in MetricNames, amount \in Amounts :
          (DocIncrementMetric(p, name, amount) /\ inst[p] = Loads(stored).val)
              => LET pre == Loads(stored).val
                     post == Loads(stored').val
                 IN  /\ Loads(stored').ok
                     /\ post = inst'[p]
                     /\ HasKey(post, name)
                     /\ post.v[name] = JNum(MetricOf(pre, name) + amount)
                     /\ DOMAIN post.v = DOMAIN pre.v \cup {name}
                     /\ \A key \in DOMAIN pre.v \ {name} : post.v[key] = pre.v[key]]_vars

\* C22 witness: two increments of 1 in a row by one caller took a metric from
\* absent to 2 while another metric kept its value.
C22_Witness ==
    /\ jop.op = "increment_metric"
    /\ ~jop.stale
    /\ jop.arg = "views"
    /\ jop.pre = SetKey(SetKey(EmptyDict, "likes", JNum(2)), "views", JNum(1))
    /\ Loads(stored).val = SetKey(SetKey(EmptyDict, "likes", JNum(2)), "views", JNum(2))

\* a step in which caller p runs a helper right after another caller's
\* helper saved, and the document stored afterwards shows both mutations
ReflectsBoth(p) ==
    LET post == Loads(stored').val
    IN  /\ \A c \in Categories :
              (jop.op = "add_tag" /\ DocSetCategory(p, c))
                  => /\ Occurrences(TagsOf(post), JStr(jop.arg)) = 1
                     /\ HasKey(post, "category") /\ post.v["category"] = JStr(c)
        /\ \A t \in TagNames :
              (jop.op = "set_category" /\ DocAddTag(p, t))
                  => /\ HasKey(post, "category") /\ post.v["category"] = JStr(jop.arg)
                     /\ Occurrences(TagsOf(post), JStr(t)) = 1
        /\ \A name \in MetricNames, amount \in Amounts :
              (jop.op = "increment_metric" /\ jop.arg = name
                                          /\ DocIncrementMetric(p, name, amount))
                  => /\ HasKey(post, name)
                     /\ post.v[name] = JNum(MetricOf(jop.wrote, name) + amount)

\* C23 as stated: whenever a caller runs a helper after another caller's
\* helper saved, whatever instance it holds, the stored document reflects
\* both mutations.
C23_NoUpdateLost ==
    [][\A p \in Procs :
          (jop.saved /\ jop.p # p) => ReflectsBoth(p)]_vars

\* C23: when a caller runs a helper after another caller's helper saved, on
\* an instance that holds the document stored at that moment, the stored
\* document reflects both mutations.
C23_NoUpdateLostWhenReloaded ==
    [][\A p \in Procs :
          (jop.saved /\ jop.p # p /\ inst[p] = Loads(stored).val)
              => ReflectsBoth(p)]_vars

\* C23 witness: a category was set from a reloaded instance after the other
\* caller had added tag "b", and the stored document has both.
C23_Witness ==
    /\ jop.op = "set_category"
    /\ ~jop.stale
    /\ Occurrences(TagsOf(jop.pre), JStr("b")) = 1
    /\ ~HasKey(jop.pre, "category")
    /\ \E q \in Procs : q # jop.p /\ inst[q] = jop.pre
    /\ Occurrences(TagsOf(Loads(stored).val), JStr("b")) = 1
    /\ HasKey(Loads(stored).val, "category")

(***************************************************************************)
(* Claims about the JSON queries, checked under SpecQuery                  *)
(***************************************************************************)
Dotted(key) == Len(PathSteps(key)) > 1

\* C19: json_contains(field, key, value) succeeds and selects exactly the
\* records whose document has the key with that value.
C19_SelectsKeyEqualValue ==
    (qres.op = "json_contains" /\ ~Dotted(qres.key))
        => /\ qres.outcome = "ok"
           /\ qres.ids = {n \in 1..Len(posts) :
                             /\ HasKey(posts[n], qres.key)
                             /\ posts[n].v[qres.key] = JStr(qres.value)}

\* C20: the predicate and the extraction built for a dotted path address the
\* value inside the nested objects, and an absent path gives no match and
\* no error.
C20_DottedPathIsNested ==
    /\ (qres.op = "json_contains" /\ Dotted(qres.key))
          => /\ qres.outcome = "ok"
             /\ qres.ids = {n \in 1..Len(posts) :
                               JsonExtractAt(posts[n], PathSteps(qres.key))
                                   = JStr(qres.value)}
    /\ (qres.op \in {"json_extract", "json_extract_sql"} /\ Dotted(qres.key))
          => /\ qres.outcome = "ok"
             /\ \A n \in 1..Len(posts) :
                    qres.values[n] = JsonExtractAt(posts[n], PathSteps(qres.key))

(***************************************************************************)
(* Claims about failures, checked under SpecUndecoded                      *)
(***************************************************************************)
Malformed(value) == value.k = "text" /\ ~Loads(value.v).ok

\* C21: a helper that meets a malformed JSON document fails: it does not
\* go on with a default document and write that back.
C21_MalformedNotWrittenOver ==
    (jop.op # "none" /\ Malformed(jop.pre)) => ~jop.saved

(***************************************************************************)
(* Claims about Post.save, checked under SpecEmbed                         *)
(***************************************************************************)
Saves == {"save", "set_category", "add_tag"}

\* C24: a save generates an embedding only when the content is non-empty and
\* the vector is absent or empty, never replaces a non-empty vector, and
\* after every save, the metadata-only saves of add_tag and set_category
\* included, the vector in memory is the vector stored for the post.
C24_VectorInMemoryIsStored ==
    instance.op \in Saves
        => /\ instance.generated
                 => /\ instance.content # ""
                    /\ (instance.before = PyNone \/ instance.before.elems = <<>>)
           /\ ~instance.generated => instance.content_vector = instance.before
           /\ instance.content_vector = FromDbValue(dbrow.content_vector)

(***************************************************************************)
(* Claims about the version check, checked under SpecVersion               *)
(***************************************************************************)
Component(t, i) == IF i <= Len(t) THEN t[i] ELSE 0

\* a >= b as versions: component by component, a missing component being 0
NumericallyAtLeast(a, b) ==
    LET n == IF Len(a) > Len(b) THEN Len(a) ELSE Len(b)
    IN  \/ \A i \in 1..n : Component(a, i) = Component(b, i)
        \/ \E i \in 1..n :
              /\ Component(a, i) > Component(b, i)
              /\ \A j \in 1..(i - 1) : Component(a, j) = Component(b, j)

\* C25: check_mariadb_version(minimum) is true exactly when the version the
\* server reported is numerically at least minimum, whatever the number of
\* components; the server is asked at most once per instance and every call
\* returns the tuple parsed then.
C25_VersionCheckIsNumeric ==
    /\ ops.reads <= 1
    /\ ops.call.op \in {"get", "check"} => ops.call.tuple = ops.mariadb_version
    /\ ops.call.op = "check"
          => ops.call.result = NumericallyAtLeast(ops.call.tuple, ops.call.minimum)

====
